---- MODULE Spec2Model ----
(***************************************************************************)
(* A model of apple-vision-migaku-ocr: the hotkey daemon (ocr_daemon.py),  *)
(* the single-shot image OCR utility (ocr_core.py) and the window-capture  *)
(* OCR utility (window_ocrmac.py).                                         *)
(*                                                                         *)
(* Text is a sequence of one-character strings, so that lower(), strip()   *)
(* and the substring test are computed and not assumed.  An optional      *)
(* value (None or a value) is a sequence of length 0 or 1.                *)
(***************************************************************************)
EXTENDS Integers, Sequences, FiniteSets, TLC

\* ------------------------------------------------------------- bounds ---
\* the number of hotkey presses in one behaviour of the daemon
MaxPresses == 2
\* the number of on-screen windows the OS enumerates
MaxWindows == 2
\* the number of --extra-lang flags
MaxExtraLang == 1
\* the number of pieces an OCR text handed to the cleanup is made of
MaxPieces == 4

\* -------------------------------------------------------------- values --
None == <<>>
Some(x) == <<x>>

\* ocr_core.py:15
VISION_SUPPORTED_LANGS == {"en-US", "fr-FR", "it-IT", "de-DE", "es-ES", "pt-BR"}

\* ---------------------------------------------------------------- text --
\* str.lower() on the characters the model uses
LowerChar(c) ==
  CASE c = "A" -> "a"
    [] c = "B" -> "b"
    [] c = "T" -> "t"
    [] OTHER -> c

Lower(s) == [i \in 1..Len(s) |-> LowerChar(s[i])]

\* Python's  needle in hay  for str: some slice of hay equals needle
Contains(needle, hay) ==
  \E k \in 0..(Len(hay) - Len(needle)) :
    \A i \in 1..Len(needle) : hay[k + i] = needle[i]

\* the whitespace characters of the model: what \s and str.strip() take
IsSpace(c) == c \in {" ", "\n"}

RECURSIVE LStrip(_)
LStrip(s) ==
  IF s = <<>> THEN <<>>
  ELSE IF IsSpace(Head(s)) THEN LStrip(Tail(s))
  ELSE s

RECURSIVE RStrip(_)
RStrip(s) ==
  IF s = <<>> THEN <<>>
  ELSE IF IsSpace(s[Len(s)]) THEN RStrip(SubSeq(s, 1, Len(s) - 1))
  ELSE s

\* str.strip()
Strip(s) == RStrip(LStrip(s))

\* \d and \w on the characters the model uses
IsDigit(c) == c \in {"0", "1", "2", "3", "4", "5", "6", "7", "8", "9"}
IsWord(c) ==
  \/ IsDigit(c)
  \/ c \in {"a", "b", "d", "e", "i", "m", "o", "t", "x",
            "A", "B", "F", "G", "P", "S", "T", "V", "_"}

\* \b between s[p] and s[p + 1]; outside the string counts as a non-word
WordAt(s, p) == p \in 1..Len(s) /\ IsWord(s[p])
Boundary(s, p) == WordAt(s, p) # WordAt(s, p + 1)

\* the position after the longest run of digits that starts at i (\d+ is
\* greedy, and no alternative can match with fewer digits)
RECURSIVE DigitsEnd(_, _)
DigitsEnd(s, i) ==
  IF i <= Len(s) /\ IsDigit(s[i]) THEN DigitsEnd(s, i + 1) ELSE i

\* the literal lit stands at position i of s
LitAt(s, i, lit) ==
  /\ i + Len(lit) - 1 <= Len(s)
  /\ \A k \in 1..Len(lit) : s[i + k - 1] = lit[k]

\* \b prefix \d+FPS \b  at position i: the position of the match's last
\* character, or 0
FpsEnd(s, i, prefix) ==
  LET d == i + Len(prefix)
      j == DigitsEnd(s, d)
  IN  IF /\ Boundary(s, i - 1)
         /\ LitAt(s, i, prefix)
         /\ j > d
         /\ LitAt(s, j, <<"F", "P", "S">>)
         /\ Boundary(s, j + 2)
      THEN j + 2 ELSE 0

\* \b\d+x\d+\b  at position i
ResolutionEnd(s, i) ==
  LET j == DigitsEnd(s, i)
      k == DigitsEnd(s, j + 1)
  IN  IF /\ Boundary(s, i - 1)
         /\ j > i
         /\ LitAt(s, j, <<"x">>)
         /\ k > j + 1
         /\ Boundary(s, k - 1)
      THEN k - 1 ELSE 0

\* the overlay pattern of ocr_core.py:78 at position i, alternatives in order
TokenEnd(s, i) ==
  IF FpsEnd(s, i, <<>>) > 0 THEN FpsEnd(s, i, <<>>)
  ELSE IF FpsEnd(s, i, <<"V", "i", "d", "e", "o", ":">>) > 0
       THEN FpsEnd(s, i, <<"V", "i", "d", "e", "o", ":">>)
  ELSE IF FpsEnd(s, i, <<"G", "a", "m", "e", ":">>) > 0
       THEN FpsEnd(s, i, <<"G", "a", "m", "e", ":">>)
  ELSE ResolutionEnd(s, i)

\* re.sub(pattern, "", s) from position i on: leftmost matches, left to right
RECURSIVE RemoveTokens(_, _)
RemoveTokens(s, i) ==
  IF i > Len(s) THEN <<>>
  ELSE IF TokenEnd(s, i) > 0 THEN RemoveTokens(s, TokenEnd(s, i) + 1)
  ELSE <<s[i]>> \o RemoveTokens(s, i + 1)

\* the position after the run of whitespace that starts at i
RECURSIVE SpacesEnd(_, _)
SpacesEnd(s, i) ==
  IF i <= Len(s) /\ IsSpace(s[i]) THEN SpacesEnd(s, i + 1) ELSE i

\* re.sub(r"\s{2,}", " ", s) from position i on
RECURSIVE CollapseSpaces(_, _)
CollapseSpaces(s, i) ==
  IF i > Len(s) THEN <<>>
  ELSE IF SpacesEnd(s, i) >= i + 2
       THEN <<" ">> \o CollapseSpaces(s, SpacesEnd(s, i))
  ELSE <<s[i]>> \o CollapseSpaces(s, i + 1)

\* a variant with a fault: the text is trimmed before the overlay tokens are
\* removed instead of after, so a removal at either end leaves whitespace there
Clean_StripFirst(out) == CollapseSpaces(RemoveTokens(Strip(out), 1), 1)

\* the overlay cleanup, ocr_core.py:78-79
Clean(out) == Strip(CollapseSpaces(RemoveTokens(out, 1), 1))

\* the test  not text.strip()  that guards every clipboard write
NoText_Never(text) == FALSE

NoText(text) == Strip(text) = <<>>

\* -------------------------------------------------------------- windows -
\* a window descriptor as CGWindowListCopyWindowInfo reports it; owner and
\* title are text (a missing or None name reads as "" in every use), number
\* and layer are optional
OwnerNames == {<<"a">>, <<"A", "b">>}
TitleNames == {<<>>, <<"T">>}
Layers == {None, Some(0), Some(1)}
WindowAttrs ==
  [owner : OwnerNames, title : TitleNames, hasNumber : BOOLEAN, layer : Layers]

\* window numbers are unique on screen: the i-th enumerated window has number i
MkWindows(f) ==
  [i \in DOMAIN f |->
     [kCGWindowOwnerName |-> f[i].owner,
      kCGWindowName |-> f[i].title,
      kCGWindowNumber |-> IF f[i].hasNumber THEN Some(i) ELSE None,
      kCGWindowLayer |-> f[i].layer]]

WindowLists ==
  UNION {{MkWindows(f) : f \in [1..n -> WindowAttrs]} : n \in 0..MaxWindows}

\* w.get("kCGWindowLayer", 0)
GetLayer(w) == IF w.kCGWindowLayer = None THEN 0 ELSE w.kCGWindowLayer[1]

\* a variant with a fault: the layer is not tested
PickAccepts_AnyLayer(w, app_substr_l, title_substr_l) ==
  LET owner == Lower(w.kCGWindowOwnerName)
      title == Lower(w.kCGWindowName)
  IN  /\ Contains(app_substr_l, owner)
      /\ (title_substr_l # <<>> => Contains(title_substr_l, title))
      /\ w.kCGWindowNumber # None

\* one iteration test of pick_window_id's loop, ocr_daemon.py:30-39
PickAccepts(w, app_substr_l, title_substr_l) ==
  LET owner == Lower(w.kCGWindowOwnerName)
      title == Lower(w.kCGWindowName)
  IN  /\ Contains(app_substr_l, owner)
      /\ (title_substr_l # <<>> => Contains(title_substr_l, title))
      /\ w.kCGWindowNumber # None
      /\ GetLayer(w) = 0

RECURSIVE PickLoop(_, _, _)
PickLoop(ws, app_substr_l, title_substr_l) ==
  IF ws = <<>> THEN None
  ELSE IF PickAccepts(Head(ws), app_substr_l, title_substr_l)
       THEN Head(ws).kCGWindowNumber
       ELSE PickLoop(Tail(ws), app_substr_l, title_substr_l)

\* pick_window_id over the window list list_windows() returned; a title
\* substring that is None or "" is no filter (title_substr is <<>> for both)
pick_window_id(app_substr, title_substr, ws) ==
  PickLoop(ws, Lower(app_substr), Lower(title_substr))

\* the screens the daemon is run against: no window, or one
DaemonWindowLists == {ws \in WindowLists : Len(ws) <= 1}

\* match() and the loop of filter_windows, window_ocrmac.py:31-47; a filter
\* that is None or "" is no filter
FilterMatch(s, needle) ==
  IF needle = <<>> THEN TRUE ELSE Contains(Lower(needle), Lower(s))

filter_windows(windows, app_substr, title_substr) ==
  LET Keep(w) == /\ FilterMatch(w.kCGWindowOwnerName, app_substr)
                 /\ FilterMatch(w.kCGWindowName, title_substr)
  IN  SelectSeq(windows, Keep)

\* ------------------------------------------------------------------ OCR -
\* what an OCR backend reports for one image: it raises, or it returns a
\* list of annotations, of which only the text fragment is used
AnnLists ==
  {<<>>,
   << <<>> >>,
   << <<" ">> >>,
   << <<"x">> >>,
   << <<" ">>, <<" ", "x">> >>,
   << <<"x", " ">>, <<>>, <<"x">> >>,
   << <<" ", "x", " ">>, <<" ">> >>,
   << <<"6", "0", "F", "P", "S">> >>,
   << <<"x", " ">>, <<"6", "0", "F", "P", "S", "\n">>, <<"x">> >>}
BackendOutcomes ==
  {[raises |-> TRUE, anns |-> <<>>]} \cup
  {[raises |-> FALSE, anns |-> a] : a \in AnnLists}

RECURSIVE JoinFragments(_)
JoinFragments(anns) ==
  IF anns = <<>> THEN <<>>
  ELSE IF Head(anns) # <<>> /\ Strip(Head(anns)) # <<>>
       THEN Head(anns) \o JoinFragments(Tail(anns))
       ELSE JoinFragments(Tail(anns))

\* "".join(texts).strip()  over the non-blank fragments
AnnsText(anns) == Strip(JoinFragments(anns))

\* a variant with a fault: the configured list is passed as it is
CoreVisionHints_Unfiltered(languages) == Some(languages)

\* the language_preference argument ocr_core.ocr_image_to_text gives the
\* vision backend: None when the argument is omitted
CoreVisionHints(languages) ==
  LET Supported(lang) == lang \in VISION_SUPPORTED_LANGS
      supported == SelectSeq(languages, Supported)
  IN  IF supported # <<>> THEN Some(supported) ELSE None

\* the language_preference argument window_ocrmac.ocr_image_to_text gives
WinVisionHints(languages) == Some(languages)

\* one backend invocation as its caller sees it: the backend, the
\* language_preference argument, and the joined text of what it recognized
\* (None: it raised)
BackendCall(framework, hints, o) ==
  [framework |-> framework,
   hints |-> hints,
   result |-> IF o.raises THEN None ELSE Some(AnnsText(o.anns))]

\* ocr_core.ocr_file_to_text: the backend cfg.framework names is invoked once
\* (o is what that backend does), and with cfg.cleanup_hud the joined text
\* is cleaned
CoreOcr(framework, languages, cleanup_hud, o) ==
  LET call == IF framework = "livetext"
              THEN BackendCall("livetext", None, o)
              ELSE BackendCall("vision", CoreVisionHints(languages), o)
      out == AnnsText(o.anns)
  IN  [calls |-> <<call>>,
       raised |-> o.raises,
       text |-> IF o.raises THEN <<>>
                ELSE IF cleanup_hud THEN Clean(out) ELSE out]

\* a variant with a fault: no except around the livetext attempt
run_ocr_pipeline_NoExcept(framework_choice, langs, lt, vi) ==
  LET tryLt == framework_choice \in {"auto", "livetext"}
      text1 == IF tryLt /\ ~lt.raises THEN AnnsText(lt.anns) ELSE <<>>
      calls1 == IF tryLt THEN <<BackendCall("livetext", None, lt)>> ELSE <<>>
      tryVi == text1 = <<>> /\ framework_choice \in {"auto", "vision"}
      calls2 == calls1 \o <<BackendCall("vision", WinVisionHints(langs), vi)>>
  IN  IF tryLt /\ lt.raises
      THEN [calls |-> calls1, raised |-> TRUE, text |-> <<>>]
      ELSE IF tryVi
      THEN [calls |-> calls2,
            raised |-> vi.raises,
            text |-> IF vi.raises THEN <<>> ELSE AnnsText(vi.anns)]
      ELSE [calls |-> calls1, raised |-> FALSE, text |-> text1]

\* window_ocrmac.run_ocr_pipeline; lt and vi are what the livetext and the
\* vision backend do when invoked on this image
run_ocr_pipeline(framework_choice, langs, lt, vi) ==
  LET tryLt == framework_choice \in {"auto", "livetext"}
      text1 == IF tryLt /\ ~lt.raises THEN AnnsText(lt.anns) ELSE <<>>
      calls1 == IF tryLt THEN <<BackendCall("livetext", None, lt)>> ELSE <<>>
      tryVi == text1 = <<>> /\ framework_choice \in {"auto", "vision"}
      calls2 == calls1 \o <<BackendCall("vision", WinVisionHints(langs), vi)>>
  IN  IF tryVi
      THEN [calls |-> calls2,
            raised |-> vi.raises,
            text |-> IF vi.raises THEN <<>> ELSE AnnsText(vi.anns)]
      ELSE [calls |-> calls1, raised |-> FALSE, text |-> text1]

\* --------------------------------------------------------- configuration -
LangTags == {"ja-JP", "en-US"}
ExtraLangs == UNION {[1..n -> LangTags] : n \in 0..MaxExtraLang}
\* languages = [args.lang] + list(args.extra_lang)
LanguageLists == {<<l>> \o e : l \in LangTags, e \in ExtraLangs}

\* ---------------------------------------------------------------- state -
VARIABLES
  prog,          \* which entry point runs: "daemon", "image_ocr", "window_ocr"
                 \* or, for the function alone, "pick_window_id"
  cfg,           \* the parsed command line
  pc,            \* the main thread's position
  listener,      \* the GlobalHotKeys listener: "created", "running", "stopped"
  registrations, \* how many listeners were ever started
  work_queue,    \* queue.Queue: the triggers waiting, oldest first; a trigger
                 \* carries no payload, the number is the press that put it
  pressed,       \* hotkey presses so far
  started,       \* the triggers run_once was called for, in call order
  inflight,      \* executions of run_once that have begun and not ended
  workers,       \* the threads that performed a pipeline stage
  wins,          \* the window list of this invocation (None: none obtained)
  wid,           \* the window number selected in this invocation, or None
  captured,      \* screencapture succeeded in this invocation
  text,          \* the text OCR returned in this invocation, or None
  calls,         \* the stages invoked in this invocation, in order
  backendCalls,  \* the OCR backend invocations of this invocation, in order
  clipboard,     \* what this process last wrote to the clipboard, or None
  exitCode,      \* the process exit status, or None while it runs
  cause          \* what ended the main flow: "none", "KeyboardInterrupt",
                 \* "exception"

vars ==
  <<prog, cfg, pc, listener, registrations, work_queue, pressed, started,
    inflight, workers, wins, wid, captured, text, calls, backendCalls,
    clipboard, exitCode, cause>>

daemonVars == <<listener, registrations, work_queue, pressed, started, inflight>>
runVars == <<wins, wid, captured, text, calls, backendCalls>>

Config(app, title, noninteractive, image, framework, languages, cleanup_hud, after) ==
  [app |-> app, title |-> title, noninteractive |-> noninteractive,
   image |-> image, framework |-> framework, languages |-> languages,
   cleanup_hud |-> cleanup_hud, after |-> after]

\* the state every entry point starts from, but for prog, cfg and pc
InitCommon ==
  /\ listener = "created"
  /\ registrations = 0
  /\ work_queue = <<>>
  /\ pressed = 0
  /\ started = <<>>
  /\ inflight = 0
  /\ workers = {}
  /\ wins = None
  /\ wid = None
  /\ captured = FALSE
  /\ text = None
  /\ calls = <<>>
  /\ backendCalls = <<>>
  /\ clipboard = None
  /\ exitCode = None
  /\ cause = "none"

\* a pipeline stage is invoked by the main thread
Stage(name) ==
  /\ calls' = Append(calls, name)
  /\ workers' = workers \cup {"main"}

\* --------------------------------------------------------------- daemon -
\* the --lang / --extra-lang settings the daemon is run with
DaemonLanguageLists == {<<"ja-JP">>, <<"en-US", "ja-JP">>}

\* ocr_daemon.main up to and including the construction of the listener
InitDaemon ==
  /\ prog = "daemon"
  /\ cfg \in {Config(<<"B">>, <<>>, FALSE, "none", f, l, c, a) :
                f \in {"livetext", "vision"}, l \in DaemonLanguageLists,
                c \in BOOLEAN, a \in BOOLEAN}
  /\ pc = "start"
  /\ InitCommon

\* listener.start()
DaemonStartListener ==
  /\ prog = "daemon" /\ pc = "start"
  /\ listener' = "running"
  /\ registrations' = registrations + 1
  /\ pc' = "get"
  /\ UNCHANGED <<prog, cfg, work_queue, pressed, started, inflight, workers,
                 wins, wid, captured, text, calls, backendCalls, clipboard,
                 exitCode, cause>>

\* a variant with a fault: the callback runs the pipeline from the listener thread
Fire_RunsPipeline ==
  /\ prog = "daemon" /\ listener = "running"
  /\ pressed < MaxPresses
  /\ pressed' = pressed + 1
  /\ work_queue' = Append(work_queue, pressed + 1)
  /\ inflight' = inflight + 1
  /\ workers' = workers \cup {"listener"}
  /\ UNCHANGED <<prog, cfg, pc, listener, registrations, started, wins, wid,
                 captured, text, calls, backendCalls, clipboard, exitCode, cause>>

\* _fire, called on the listener thread at a hotkey press
Fire ==
  /\ prog = "daemon" /\ listener = "running"
  /\ pressed < MaxPresses
  /\ pressed' = pressed + 1
  /\ work_queue' = Append(work_queue, pressed + 1)
  /\ inflight' = inflight
  /\ workers' = workers
  /\ UNCHANGED <<prog, cfg, pc, listener, registrations, started, wins, wid,
                 captured, text, calls, backendCalls, clipboard, exitCode, cause>>

\* a variant with a fault: a LIFO queue
QueueGet_Lifo(q) ==
  [item |-> q[Len(q)], rest |-> SubSeq(q, 1, Len(q) - 1)]

\* queue.Queue.get on a non-empty queue
QueueGet(q) == [item |-> Head(q), rest |-> Tail(q)]

\* work_queue.get() returns and run_once is entered
DaemonGet ==
  /\ prog = "daemon" /\ pc = "get"
  /\ work_queue # <<>>
  /\ work_queue' = QueueGet(work_queue).rest
  /\ started' = Append(started, QueueGet(work_queue).item)
  /\ inflight' = inflight + 1
  /\ pc' = "pick"
  /\ wins' = None /\ wid' = None /\ captured' = FALSE /\ text' = None
  /\ calls' = <<>> /\ backendCalls' = <<>>
  /\ UNCHANGED <<prog, cfg, listener, registrations, pressed, workers,
                 clipboard, exitCode, cause>>

\* run_once returns to the loop, which blocks on the queue again
RunReturns ==
  /\ pc' = "get"
  /\ inflight' = inflight - 1
  /\ UNCHANGED <<listener, exitCode, cause>>

\* a variant with a fault: the listener is stopped in  except KeyboardInterrupt  only
UncaughtException_NoFinally ==
  /\ pc' = "exited"
  /\ cause' = "exception"
  /\ inflight' = 0
  /\ exitCode' = Some(1)
  /\ UNCHANGED listener

\* an exception other than KeyboardInterrupt leaves run_once and the loop:
\* no except clause of main matches it, the finally clause runs next
UncaughtException ==
  /\ pc' = "finally"
  /\ cause' = "exception"
  /\ inflight' = 0
  /\ UNCHANGED <<listener, exitCode>>

\* wid = pick_window_id(app, title), and the return when it is None
DaemonPick ==
  /\ prog = "daemon" /\ pc = "pick"
  /\ \E ws \in DaemonWindowLists :
       LET w == pick_window_id(cfg.app, cfg.title, ws)
       IN  /\ wid' = w
           /\ IF w = None
              THEN RunReturns
              ELSE /\ pc' = "capture"
                   /\ UNCHANGED <<inflight, listener, exitCode, cause>>
  /\ Stage("pick")
  /\ UNCHANGED <<prog, cfg, registrations, work_queue, pressed, started,
                 wins, captured, text, backendCalls, clipboard>>

\* a variant with a fault: screencapture's exit status is not checked
DaemonCapture_Unchecked ==
  /\ prog = "daemon" /\ pc = "capture"
  /\ \E ok \in BOOLEAN : captured' = ok
  /\ pc' = "ocr"
  /\ Stage("capture")
  /\ UNCHANGED <<prog, cfg, listener, registrations, work_queue, pressed,
                 started, inflight, wins, wid, text, backendCalls, clipboard,
                 exitCode, cause>>

\* screencapture_window(wid, img_path) and the handler of its failure
DaemonCapture ==
  /\ prog = "daemon" /\ pc = "capture"
  /\ \E ok \in BOOLEAN :
       /\ captured' = ok
       /\ IF ok
          THEN /\ pc' = "ocr"
               /\ UNCHANGED <<inflight, listener, exitCode, cause>>
          ELSE RunReturns
  /\ Stage("capture")
  /\ UNCHANGED <<prog, cfg, registrations, work_queue, pressed, started,
                 wins, wid, text, backendCalls, clipboard>>

\* text = ocr_file_to_text(img_path, cfg), and the return when it is blank;
\* load_and_crop or the backend may raise
DaemonOcr ==
  /\ prog = "daemon" /\ pc = "ocr"
  /\ \E loaded \in BOOLEAN, o \in BackendOutcomes :
       LET r == CoreOcr(cfg.framework, cfg.languages, cfg.cleanup_hud, o)
       IN  IF ~loaded
           THEN /\ UncaughtException
                /\ UNCHANGED <<text, backendCalls>>
           ELSE /\ backendCalls' = r.calls
                /\ IF r.raised
                   THEN UncaughtException /\ UNCHANGED text
                   ELSE /\ text' = Some(r.text)
                        /\ IF NoText(r.text)
                           THEN RunReturns
                           ELSE /\ pc' = "copy"
                                /\ UNCHANGED <<inflight, listener, exitCode, cause>>
  /\ Stage("ocr")
  /\ UNCHANGED <<prog, cfg, registrations, work_queue, pressed, started,
                 wins, wid, captured, clipboard>>

\* copy_to_clipboard(text): pbcopy exits 0, or check=True raises
DaemonCopy ==
  /\ prog = "daemon" /\ pc = "copy"
  /\ \E ok \in BOOLEAN :
       IF ok
       THEN /\ clipboard' = text
            /\ IF cfg.after
               THEN /\ pc' = "after"
                    /\ UNCHANGED <<inflight, listener, exitCode, cause>>
               ELSE RunReturns
       ELSE UncaughtException /\ UNCHANGED clipboard
  /\ Stage("copy")
  /\ UNCHANGED <<prog, cfg, registrations, work_queue, pressed, started,
                 wins, wid, captured, text, backendCalls>>

\* subprocess.Popen(after_cmd.split(" ")): the command starts, or Popen raises
DaemonAfter ==
  /\ prog = "daemon" /\ pc = "after"
  /\ \E ok \in BOOLEAN : IF ok THEN RunReturns ELSE UncaughtException
  /\ Stage("after")
  /\ UNCHANGED <<prog, cfg, registrations, work_queue, pressed, started,
                 wins, wid, captured, text, backendCalls, clipboard>>

LoopPcs == {"get", "pick", "capture", "ocr", "copy", "after"}
RunPcs == LoopPcs \ {"get"}

\* the interrupt signal: KeyboardInterrupt is raised in the main thread,
\* blocked in get() or anywhere in run_once, and  except KeyboardInterrupt: pass
DaemonInterrupt ==
  /\ prog = "daemon" /\ pc \in LoopPcs
  /\ pc' = "finally"
  /\ cause' = "KeyboardInterrupt"
  /\ inflight' = 0
  /\ UNCHANGED <<prog, cfg, listener, registrations, work_queue, pressed,
                 started, workers, wins, wid, captured, text, calls,
                 backendCalls, clipboard, exitCode>>

\* finally: listener.stop(); then return 0, or the exception ends the process
DaemonFinally ==
  /\ prog = "daemon" /\ pc = "finally"
  /\ listener' = "stopped"
  /\ pc' = "exited"
  /\ exitCode' = IF cause = "KeyboardInterrupt" THEN Some(0) ELSE Some(1)
  /\ UNCHANGED <<prog, cfg, registrations, work_queue, pressed, started,
                 inflight, workers, wins, wid, captured, text, calls,
                 backendCalls, clipboard, cause>>

DaemonMainStep ==
  \/ DaemonStartListener
  \/ DaemonGet
  \/ DaemonPick
  \/ DaemonCapture
  \/ DaemonOcr
  \/ DaemonCopy
  \/ DaemonAfter
  \/ DaemonFinally

DaemonNext == DaemonMainStep \/ Fire \/ DaemonInterrupt

\* ------------------------------------------------ single-shot image OCR -
\* ocr_core.main after parse_args
InitCore ==
  /\ prog = "image_ocr"
  /\ cfg \in {Config(<<>>, <<>>, FALSE, i, f, l, c, FALSE) :
                i \in {"missing", "exists"}, f \in {"livetext", "vision"},
                l \in LanguageLists, c \in BOOLEAN}
  /\ pc = "args"
  /\ InitCommon

\* the process ends with this status
Exit(code) ==
  /\ pc' = "done"
  /\ exitCode' = Some(code)

\* an exception no handler catches ends a single-shot utility with status 1
Crash ==
  /\ Exit(1)
  /\ cause' = "exception"

\* os.path.exists(img_path), ocr_core.py:104-107
CoreArgs ==
  /\ prog = "image_ocr" /\ pc = "args"
  /\ IF cfg.image = "missing"
     THEN Exit(2)
     ELSE pc' = "ocr" /\ UNCHANGED exitCode
  /\ UNCHANGED <<prog, cfg, daemonVars, workers, runVars, clipboard, cause>>

\* text = ocr_file_to_text(img_path, cfg) and the blank test, ocr_core.py:117-120
CoreOcrStep ==
  /\ prog = "image_ocr" /\ pc = "ocr"
  /\ \E loaded \in BOOLEAN, o \in BackendOutcomes :
       LET r == CoreOcr(cfg.framework, cfg.languages, cfg.cleanup_hud, o)
       IN  IF ~loaded
           THEN Crash /\ UNCHANGED <<text, backendCalls>>
           ELSE /\ backendCalls' = r.calls
                /\ IF r.raised
                   THEN Crash /\ UNCHANGED text
                   ELSE /\ text' = Some(r.text)
                        /\ UNCHANGED cause
                        /\ IF NoText(r.text)
                           THEN Exit(3)
                           ELSE pc' = "copy" /\ UNCHANGED exitCode
  /\ Stage("ocr")
  /\ UNCHANGED <<prog, cfg, daemonVars, wins, wid, captured, clipboard>>

\* copy_to_clipboard(text) and return 0, ocr_core.py:122-125
CoreCopy ==
  /\ prog = "image_ocr" /\ pc = "copy"
  /\ \E ok \in BOOLEAN :
       IF ok
       THEN clipboard' = text /\ Exit(0) /\ UNCHANGED cause
       ELSE Crash /\ UNCHANGED clipboard
  /\ Stage("copy")
  /\ UNCHANGED <<prog, cfg, daemonVars, wins, wid, captured, text, backendCalls>>

CoreNext == CoreArgs \/ CoreOcrStep \/ CoreCopy

\* --------------------------------------------------- window-capture OCR -
\* the window lists the utility is run against: it never reads the layer
WinWindowLists == {ws \in WindowLists : \A i \in DOMAIN ws : ws[i].kCGWindowLayer = Some(0)}

\* window_ocrmac.main after parse_args
InitWin ==
  /\ prog = "window_ocr"
  /\ cfg \in {Config(a, t, n, i, f, l, FALSE, FALSE) :
                a \in {<<>>, <<"B">>}, t \in {<<>>, <<"t">>}, n \in BOOLEAN,
                i \in {"none", "missing", "exists"},
                f \in {"auto", "livetext", "vision"}, l \in LanguageLists}
  /\ pc = "args"
  /\ InitCommon

\* not (args.app or args.title)
NoFilters(c) == c.app = <<>> /\ c.title = <<>>

\* window_ocrmac.py:149-158: the image test in test mode, the flag test in
\* window mode
WinArgs ==
  /\ prog = "window_ocr" /\ pc = "args"
  /\ IF cfg.image # "none"
     THEN IF cfg.image = "missing"
          THEN Exit(2)
          ELSE pc' = "ocr" /\ UNCHANGED exitCode
     ELSE IF NoFilters(cfg) /\ cfg.noninteractive
          THEN Exit(2)
          ELSE pc' = "list" /\ UNCHANGED exitCode
  /\ UNCHANGED <<prog, cfg, daemonVars, workers, runVars, clipboard, cause>>

\* window_ocrmac.py:160-180: list, filter, choose, read the window number.
\* wins and chosen are read by no later line: past line 180 they are dropped
WinSelect ==
  /\ prog = "window_ocr" /\ pc = "list"
  /\ \/ /\ Exit(3)
        /\ UNCHANGED <<wins, wid>>
     \/ \E ws \in WinWindowLists :
          LET filtered == filter_windows(ws, cfg.app, cfg.title)
          IN  IF filtered = <<>>
              THEN /\ Exit(4)
                   /\ wins' = Some(ws)
                   /\ UNCHANGED wid
              ELSE \E idx \in 1..Len(filtered) :
                     /\ cfg.noninteractive => idx = 1
                     /\ IF filtered[idx].kCGWindowNumber = None
                        THEN /\ Exit(5)
                             /\ wins' = Some(ws)
                             /\ UNCHANGED wid
                        ELSE /\ pc' = "capture"
                             /\ wid' = filtered[idx].kCGWindowNumber
                             /\ UNCHANGED <<wins, exitCode>>
  /\ Stage("list")
  /\ UNCHANGED <<prog, cfg, daemonVars, captured, text, backendCalls,
                 clipboard, cause>>

\* a variant with a fault: screencapture's exit status is not checked
WinCapture_Unchecked ==
  /\ prog = "window_ocr" /\ pc = "capture"
  /\ \E ok \in BOOLEAN : captured' = ok
  /\ pc' = "ocr"
  /\ Stage("capture")
  /\ UNCHANGED <<prog, cfg, daemonVars, wins, wid, text, backendCalls,
                 clipboard, exitCode, cause>>

\* screencapture_window(int(wid), tmp_img), window_ocrmac.py:182-193
WinCapture ==
  /\ prog = "window_ocr" /\ pc = "capture"
  /\ \E ok \in BOOLEAN :
       /\ captured' = ok
       /\ IF ok THEN pc' = "ocr" /\ UNCHANGED exitCode ELSE Exit(6)
  /\ Stage("capture")
  /\ UNCHANGED <<prog, cfg, daemonVars, wins, wid, text, backendCalls,
                 clipboard, cause>>

\* text = run_ocr_pipeline(...) and the blank test, window_ocrmac.py:196-199
\* and 205-208
WinOcr ==
  /\ prog = "window_ocr" /\ pc = "ocr"
  /\ \E lt \in BackendOutcomes, vi \in BackendOutcomes :
       LET r == run_ocr_pipeline(cfg.framework, cfg.languages, lt, vi)
       IN  /\ backendCalls' = r.calls
           /\ IF r.raised
              THEN Crash /\ UNCHANGED text
              ELSE /\ text' = Some(r.text)
                   /\ UNCHANGED cause
                   /\ IF NoText(r.text)
                      THEN Exit(7)
                      ELSE pc' = "copy" /\ UNCHANGED exitCode
  /\ Stage("ocr")
  /\ UNCHANGED <<prog, cfg, daemonVars, wins, wid, captured, clipboard>>

\* copy_to_clipboard(text); print_ok_preview(text); return 0
WinCopy ==
  /\ prog = "window_ocr" /\ pc = "copy"
  /\ \E ok \in BOOLEAN :
       IF ok
       THEN clipboard' = text /\ Exit(0) /\ UNCHANGED cause
       ELSE Crash /\ UNCHANGED clipboard
  /\ Stage("copy")
  /\ UNCHANGED <<prog, cfg, daemonVars, wins, wid, captured, text, backendCalls>>

WinNext == WinArgs \/ WinSelect \/ WinCapture \/ WinOcr \/ WinCopy

\* ------------------------------------------------------ specifications --
Init == InitDaemon \/ InitCore \/ InitWin

Next == DaemonNext \/ CoreNext \/ WinNext

\* the three entry points
Spec == Init /\ [][Next]_vars

\* the daemon alone; the main thread takes its next step whenever it has one
\* (a run_once that was entered goes on, get() returns when the queue holds
\* a trigger); the hotkey and the interrupt signal are the user's to give
LiveSpec == InitDaemon /\ [][DaemonNext]_vars /\ WF_vars(DaemonMainStep)

\* pick_window_id alone, on every window list and filter within the bounds
AppSubstrs == {<<"a">>, <<"B">>, <<"t">>}
TitleSubstrs == {<<>>, <<"t">>}

InitPick ==
  /\ prog = "pick_window_id"
  /\ cfg \in {Config(a, t, FALSE, "none", "livetext", <<"ja-JP">>, TRUE, FALSE) :
                a \in AppSubstrs, t \in TitleSubstrs}
  /\ pc = "pick"
  /\ InitCommon

\* list_windows() returns ws and pick_window_id(app, title) returns
PickApply ==
  /\ prog = "pick_window_id" /\ pc = "pick"
  /\ \E ws \in WindowLists :
       /\ wins' = Some(ws)
       /\ wid' = pick_window_id(cfg.app, cfg.title, ws)
  /\ pc' = "done"
  /\ UNCHANGED <<prog, cfg, daemonVars, workers, captured, text, calls,
                 backendCalls, clipboard, exitCode, cause>>

SpecPick == InitPick /\ [][PickApply]_vars

\* the overlay cleanup alone, on every text within the bounds
CleanPieces ==
  {<<"6">>, <<"x">>, <<"a">>, <<":">>, <<" ">>, <<"\n">>,
   <<"6", "0", "F", "P", "S">>, <<"V", "i", "d", "e", "o", ":">>,
   <<"G", "a", "m", "e", ":">>}

RECURSIVE Flatten(_)
Flatten(ps) == IF ps = <<>> THEN <<>> ELSE Head(ps) \o Flatten(Tail(ps))

CleanInputs ==
  {Flatten(ps) : ps \in UNION {[1..n -> CleanPieces] : n \in 0..MaxPieces}}

\* out is the joined text of the annotations, before the cleanup
InitClean ==
  /\ prog = "clean"
  /\ cfg \in {[cleanup_hud |-> TRUE, out |-> t] : t \in CleanInputs}
  /\ pc = "clean"
  /\ InitCommon

\* the cleanup is applied to out, and then to its own result
CleanApply ==
  /\ prog = "clean" /\ pc = "clean"
  /\ text' = Some(Clean(IF text = None THEN cfg.out ELSE text[1]))
  /\ calls' = Append(calls, "clean")
  /\ pc' = IF calls = <<>> THEN "clean" ELSE "done"
  /\ UNCHANGED <<prog, cfg, daemonVars, workers, wins, wid, captured,
                 backendCalls, clipboard, exitCode, cause>>

SpecClean == InitClean /\ [][CleanApply]_vars

\* =============================================================== claims ==
Invoked(stage) == \E i \in DOMAIN calls : calls[i] = stage
Count(stage) == Cardinality({i \in DOMAIN calls : calls[i] = stage})
Blank(t) == \A i \in DOMAIN t : t[i] \in {" ", "\n"}

\* C1: in the daemon at most one execution of run_once is in flight, it is
\* in flight exactly while the main thread is inside run_once, and no thread
\* but the main thread ever performs a pipeline stage (the hotkey callback
\* only enqueues).
C1_AtMostOneRun ==
  prog = "daemon" =>
    /\ inflight <= 1
    /\ (inflight = 1 <=> pc \in RunPcs)
    /\ workers \subseteq {"main"}

\* a hotkey press arrived while a run was in progress
C1_Witness ==
  /\ prog = "daemon" /\ pc \in RunPcs /\ inflight = 1
  /\ work_queue # <<>>
  /\ workers = {"main"}

\* C2: no trigger is dropped, duplicated or reordered: the triggers run so
\* far followed by the triggers still queued are the presses 1..pressed in
\* order; and unless the main loop ends, the number of runs started
\* eventually equals the number of presses and stays equal.
C2_QueuedFifoAndServed ==
  /\ [](started \o work_queue = [i \in 1..pressed |-> i])
  /\ (<>(pc \in {"finally", "exited"}) \/ <>[](Len(started) = pressed))

\* the second press arrived while the first run was in progress and is queued
C2_Witness ==
  /\ prog = "daemon" /\ pc \in RunPcs
  /\ started = <<1>> /\ work_queue = <<2>>

\* C3 (as claimed): the main loop of the daemon is never left because of a
\* failure inside a run; only the interrupt signal ends it.
C3_RunFailureNeverEndsDaemon ==
  (prog = "daemon" /\ pc \in {"finally", "exited"}) => cause = "KeyboardInterrupt"

\* C4: the daemon starts one listener, before the loop; the listener runs
\* while the loop runs; and once main has ended, by interrupt or by an
\* exception out of a run, the listener has been stopped.
C4_RegistrationReleased ==
  prog = "daemon" =>
    /\ registrations <= 1
    /\ (pc = "start" <=> registrations = 0)
    /\ (pc \in LoopPcs => listener = "running")
    /\ (pc = "exited" => listener = "stopped" /\ exitCode # None)
    /\ (exitCode # None => listener = "stopped")

\* main ended by an exception out of a run, with the listener stopped
C4_Witness ==
  /\ prog = "daemon" /\ pc = "exited" /\ cause = "exception"
  /\ listener = "stopped" /\ registrations = 1

\* C5: in a daemon run, after no window matched nothing but the window
\* lookup was invoked, and after a failed capture neither OCR nor the
\* clipboard write nor the --after command was invoked.
C5_AbortWithoutSideEffects ==
  prog = "daemon" =>
    /\ (wid = None => \A i \in DOMAIN calls : calls[i] = "pick")
    /\ (~captured =>
          /\ ~Invoked("ocr") /\ ~Invoked("copy") /\ ~Invoked("after")
          /\ backendCalls = <<>> /\ text = None)
    /\ (Invoked("capture") => wid # None)

\* a run whose capture failed has returned to the loop
C5_Witness ==
  /\ prog = "daemon" /\ pc = "get"
  /\ calls = <<"pick", "capture">> /\ ~captured /\ inflight = 0

\* C6: the clipboard is written at most once per invocation and only with
\* non-blank text; when OCR returned blank text nothing is written, the
\* image utility has exited 3, the window utility has exited 7, and the
\* daemon run has ended without a clipboard write or --after command; a
\* utility that exits 0 has written the text once.
C6_BlankTextNeverCopied ==
  /\ Count("copy") <= 1
  /\ (Invoked("copy") => text # None /\ ~Blank(text[1]))
  /\ (clipboard # None => clipboard[1] # <<>> /\ ~Blank(clipboard[1]))
  /\ (text # None /\ Blank(text[1]) =>
        /\ ~Invoked("copy") /\ ~Invoked("after")
        /\ (prog = "image_ocr" =>
              pc = "done" /\ exitCode = Some(3) /\ clipboard = None)
        /\ (prog = "window_ocr" =>
              pc = "done" /\ exitCode = Some(7) /\ clipboard = None)
        /\ (prog = "daemon" => pc \notin RunPcs))
  /\ (prog # "daemon" /\ exitCode = Some(0) =>
        Count("copy") = 1 /\ clipboard = text /\ text # None)

\* the image utility recognized text that is blank once the overlay tokens
\* are removed, and exited 3 with the clipboard untouched
C6_Witness ==
  /\ prog = "image_ocr" /\ pc = "done" /\ exitCode = Some(3)
  /\ backendCalls[1].result # Some(<<>>)
  /\ text = Some(<<>>) /\ clipboard = None /\ calls = <<"ocr">>

\* C7: with --framework auto, run_ocr_pipeline invokes livetext first; it
\* invokes vision next exactly when livetext raised or returned empty text;
\* the result is livetext's text when that is non-empty, else vision's.
C7_AutoFallback ==
  (prog = "window_ocr" /\ cfg.framework = "auto" /\ Invoked("ocr")) =>
    /\ Len(backendCalls) \in {1, 2}
    /\ backendCalls[1].framework = "livetext"
    /\ LET lt == backendCalls[1].result
           ltEmpty == lt = None \/ lt = Some(<<>>)
       IN  /\ (Len(backendCalls) = 2 <=> ltEmpty)
           /\ (Len(backendCalls) = 2 => backendCalls[2].framework = "vision")
           /\ (~ltEmpty => text = lt)
           /\ (ltEmpty => text = backendCalls[2].result)

\* livetext raised, vision was tried next and its text is the result
C7_Witness ==
  /\ prog = "window_ocr" /\ cfg.framework = "auto"
  /\ Len(backendCalls) = 2
  /\ backendCalls[1].result = None
  /\ text = Some(<<"x">>) /\ backendCalls[2].result = text

SupportedAt == {i \in DOMAIN cfg.languages : cfg.languages[i] \in VISION_SUPPORTED_LANGS}

\* h lists the supported configured tags, each once, in configured order
IsSupportedSublist(h) ==
  /\ Len(h) = Cardinality(SupportedAt)
  /\ \A k \in DOMAIN h :
       \E i \in SupportedAt :
         /\ Cardinality({j \in SupportedAt : j <= i}) = k
         /\ h[k] = cfg.languages[i]

ContainsCI(needle, hay) ==
  \E k \in 0..(Len(hay) - Len(needle)) :
    \A i \in 1..Len(needle) : LowerChar(hay[k + i]) = LowerChar(needle[i])

\* window w passes the owner and title filters and is on layer 0 (a window
\* that reports no layer counts as layer 0)
Matches(w) ==
  /\ ContainsCI(cfg.app, w.kCGWindowOwnerName)
  /\ (cfg.title # <<>> => ContainsCI(cfg.title, w.kCGWindowName))
  /\ w.kCGWindowLayer \in {None, Some(0)}

\* C9 (as claimed): pick_window_id returns the number of the first window
\* in enumeration order that passes the filters on layer 0, and None exactly
\* when there is no such window.
C9_FirstMatchingWindow ==
  (prog = "pick_window_id" /\ pc = "done") =>
    LET ws == wins[1]
        M == {i \in DOMAIN ws : Matches(ws[i])}
    IN  /\ (wid = None <=> M = {})
        /\ \A i \in M : (\A j \in M : i <= j) => wid = ws[i].kCGWindowNumber

\* C9 (amended): pick_window_id returns the number of the first window that
\* passes the filters on layer 0 and has a window number, and None exactly
\* when there is no such window.
C9_FirstMatchingNumberedWindow ==
  (prog = "pick_window_id" /\ pc = "done") =>
    LET ws == wins[1]
        M == {i \in DOMAIN ws : Matches(ws[i]) /\ ws[i].kCGWindowNumber # None}
    IN  /\ (wid = None <=> M = {})
        /\ \A i \in M : (\A j \in M : i <= j) => wid = ws[i].kCGWindowNumber

\* the first window is passed over (wrong owner, wrong layer or no number)
\* and the second is returned, matched only when case is ignored
C9_Witness ==
  /\ prog = "pick_window_id" /\ pc = "done"
  /\ cfg.app = <<"B">>
  /\ Len(wins[1]) = 2
  /\ wid = Some(2)

\* what the exit status of the window utility says, common to both readings
ExitStages(code) ==
  /\ (code = 3 => calls = <<"list">> /\ wins = None)
  /\ (code = 4 =>
        /\ calls = <<"list">> /\ wins # None
        /\ \A i \in DOMAIN wins[1] :
             ~(/\ ContainsCI(cfg.app, wins[1][i].kCGWindowOwnerName)
               /\ ContainsCI(cfg.title, wins[1][i].kCGWindowName)))
  /\ (code = 5 =>
        /\ calls = <<"list">> /\ wins # None
        /\ \E i \in DOMAIN wins[1] :
             /\ ContainsCI(cfg.app, wins[1][i].kCGWindowOwnerName)
             /\ ContainsCI(cfg.title, wins[1][i].kCGWindowName)
             /\ wins[1][i].kCGWindowNumber = None
             /\ cfg.noninteractive =>
                  \A j \in 1..(i - 1) :
                    ~(/\ ContainsCI(cfg.app, wins[1][j].kCGWindowOwnerName)
                      /\ ContainsCI(cfg.title, wins[1][j].kCGWindowName)))
  /\ (code = 6 => calls = <<"list", "capture">> /\ ~captured /\ wid # None)
  /\ (code = 7 =>
        /\ calls[Len(calls)] = "ocr"
        /\ text # None /\ Blank(text[1]))
  /\ (code = 0 =>
        /\ calls[Len(calls)] = "copy" /\ Count("copy") = 1
        /\ text # None /\ ~Blank(text[1]) /\ clipboard = text)
  /\ (code # 0 => clipboard = None)
  /\ (code \in {1, 2, 3, 4, 5, 6, 7} => ~Invoked("copy") \/ code = 1)
  /\ (cfg.image = "none" /\ Invoked("ocr") =>
        /\ SubSeq(calls, 1, 3) = <<"list", "capture", "ocr">>
        /\ captured /\ wid # None)
  /\ (Invoked("capture") => wid # None)

\* C10 (as claimed): the window utility exits 2 when --noninteractive comes
\* without --app and --title, and the statuses 2..7 and 0 each name the
\* stage that ended the run; no later stage ran and on a nonzero status the
\* clipboard was not written.
C10_ExitCodeNamesStage ==
  (prog = "window_ocr" /\ pc = "done") =>
    LET code == exitCode[1]
    IN  /\ (cfg.noninteractive /\ NoFilters(cfg) => code = 2)
        /\ (code = 2 => cfg.noninteractive /\ NoFilters(cfg) /\ calls = <<>>)
        /\ ExitStages(code)

\* C10 (amended): without --image the window utility exits 2 exactly when
\* --noninteractive comes without --app and --title; with --image that test
\* is skipped and 2 means the image file does not exist; 3..7 and 0 are as
\* claimed.
C10_ExitCodeNamesStageByMode ==
  (prog = "window_ocr" /\ pc = "done") =>
    LET code == exitCode[1]
    IN  /\ (cfg.image = "none" =>
              (code = 2 <=> cfg.noninteractive /\ NoFilters(cfg)))
        /\ (cfg.image # "none" =>
              /\ (code = 2 <=> cfg.image = "missing")
              /\ code \in {0, 1, 2, 7}
              /\ ~Invoked("list") /\ ~Invoked("capture"))
        /\ (code = 2 => calls = <<>>)
        /\ ExitStages(code)

\* a capture that failed ended the run with status 6 before OCR
C10_Witness ==
  /\ prog = "window_ocr" /\ pc = "done" /\ cfg.image = "none"
  /\ exitCode = Some(6) /\ calls = <<"list", "capture">> /\ clipboard = None

\* C11: the overlay cleanup is idempotent: once the cleanup has been applied
\* to a text, applying it again to the result leaves the result unchanged,
\* clean(clean(t)) = clean(t).
C11_CleanIdempotent ==
  [][(prog = "clean" /\ calls # <<>>) => text' = text]_vars

\* a text with an overlay token between two whitespace characters has been
\* cleaned twice: the first cleanup removed the token, collapsed the run the
\* removal left and trimmed the end, and the second changed nothing
C11_Witness ==
  /\ prog = "clean" /\ pc = "done" /\ calls = <<"clean", "clean">>
  /\ cfg.out = <<"a", " ", "6", "0", "F", "P", "S", "\n">>
  /\ text = Some(<<"a">>)

====
